---- MODULE Spec2Model ----
(***************************************************************************)
(* Ledger core of chinyuchan/platform (ledger/src/store/store.rs):         *)
(* TxnEffect::compute_effect, LedgerStatus::apply_txn_effects,             *)
(* LedgerState::apply_transaction / checkpoint / snapshot.                 *)
(*                                                                         *)
(* Digests are modelled as injective constructors (tuples of what is       *)
(* hashed).  u64 sequence numbers are scaled to 0..U64_MAX with the        *)
(* arithmetic of the two builds: a release build wraps on overflow, a      *)
(* debug build panics (and also evaluates debug_assert!).                  *)
(***************************************************************************)
EXTENDS Integers, Sequences, FiniteSets, TLC

\* ---- bounds of the model ------------------------------------------------
MaxTxns        == 3     \* successful apply_transaction calls per behaviour
MaxCheckpoints == 2     \* checkpoint() calls per behaviour
U64_MAX        == 3     \* greatest sequence number (u64::MAX, scaled)
MaxAbsSid      == 1     \* Absolute references name TxoSID 0..MaxAbsSid
MaxLongCheckpoints == 102   \* checkpoint() calls per behaviour of SpecLong
MaxLogLen      == 3     \* entries of a transaction log handed to load
MaxReaders     == 2     \* read guards handed out at one time
MaxInputs      == 2     \* inputs added to a transfer builder
MaxOutputs     == 2     \* outputs added to a transfer builder by add_output
MaxSigs        == 2     \* signatures attached to a created transfer
MaxOps         == 3     \* operations per transaction handed to compute_effect

\* ---- program constants --------------------------------------------------
MAX_VERSION == 100

\* ---- value domains ------------------------------------------------------
None    == 0                    \* Option::None in a txos slot
Records == {1, 2}               \* BlindAssetRecord values
SeqNums == {0, 1, U64_MAX}      \* issuance sequence numbers tried
Codes   == {"A", "B"}           \* AssetTypeCode values
Props   == {"K1", "K2"}         \* Asset properties (issuer key, flags, memo)
ZeroDigest == <<>>              \* BitDigest { 0: [0_u8; 32] }
Prngs   == {0, 1}               \* states of the caller's random generator
SeedPrng == 0                   \* ChaChaRng::from_seed([0u8; 32])

EmptyMap == <<>>                \* HashMap::new()

Relative(offs) == [ref |-> "Relative", n |-> offs]
Absolute(sid)  == [ref |-> "Absolute", n |-> sid]

DefineAsset(code, props, sig_ok) ==
  [kind |-> "DefineAsset", code |-> code, props |-> props, sig_ok |-> sig_ok]

IssueAsset(code, seq_num, num_outputs, records, sig_ok) ==
  [kind |-> "IssueAsset", code |-> code, seq_num |-> seq_num,
   num_outputs |-> num_outputs, records |-> records, sig_ok |-> sig_ok]

TransferAsset(inputs, xfr_inputs, xfr_outputs, num_outputs, sigs_ok, proof_ok) ==
  [kind |-> "TransferAsset", inputs |-> inputs, xfr_inputs |-> xfr_inputs,
   xfr_outputs |-> xfr_outputs, num_outputs |-> num_outputs,
   sigs_ok |-> sigs_ok, proof_ok |-> proof_ok]

\* ---- TxnEffect::compute_effect ------------------------------------------
Err(kind) == [ok |-> FALSE, err |-> kind]

EffectInit ==
  [ok |-> TRUE, txos |-> <<>>, input_txos |-> EmptyMap,
   new_asset_codes |-> EmptyMap, new_issuance_nums |-> EmptyMap]

\* Mutant: a code defined earlier in the transaction is defined again.
EffectDefine_Redefines(acc, def) ==
  IF ~def.sig_ok THEN Err("ZeiError")
  ELSE [acc EXCEPT !.new_asset_codes   = (def.code :> def.props) @@ @,
                   !.new_issuance_nums = (def.code :> <<>>) @@ @]

\* Operation::DefineAsset arm
EffectDefine(acc, def) ==
  IF ~def.sig_ok THEN Err("ZeiError")
  ELSE IF def.code \in DOMAIN acc.new_asset_codes
          \/ def.code \in DOMAIN acc.new_issuance_nums
       THEN Err("InputsError")
  ELSE [acc EXCEPT !.new_asset_codes   = (def.code :> def.props) @@ @,
                   !.new_issuance_nums = (def.code :> <<>>) @@ @]

\* Mutant: a sequence number equal to the last one is let through.
EffectIssue_AllowsEqual(acc, iss) ==
  IF iss.num_outputs # Len(iss.records) THEN Err("InputsError")
  ELSE
    LET nums0    == IF iss.code \in DOMAIN acc.new_issuance_nums
                    THEN acc.new_issuance_nums
                    ELSE (iss.code :> <<>>) @@ acc.new_issuance_nums
        iss_nums == nums0[iss.code]
    IN IF Len(iss_nums) > 0 /\ iss.seq_num < iss_nums[Len(iss_nums)]
       THEN Err("InputsError")
       ELSE IF ~iss.sig_ok THEN Err("ZeiError")
       ELSE [acc EXCEPT
               !.new_issuance_nums =
                  (iss.code :> Append(iss_nums, iss.seq_num)) @@ nums0,
               !.txos = @ \o iss.records]

\* Operation::IssueAsset arm
EffectIssue(acc, iss) ==
  IF iss.num_outputs # Len(iss.records) THEN Err("InputsError")
  ELSE
    LET nums0    == IF iss.code \in DOMAIN acc.new_issuance_nums
                    THEN acc.new_issuance_nums
                    ELSE (iss.code :> <<>>) @@ acc.new_issuance_nums
        iss_nums == nums0[iss.code]
    IN IF Len(iss_nums) > 0 /\ iss.seq_num <= iss_nums[Len(iss_nums)]
       THEN Err("InputsError")
       ELSE IF ~iss.sig_ok THEN Err("ZeiError")
       ELSE [acc EXCEPT
               !.new_issuance_nums =
                  (iss.code :> Append(iss_nums, iss.seq_num)) @@ nums0,
               !.txos = @ \o iss.records]

\* Mutant: a Relative input leaves its slot in place.
RECURSIVE EffectInputs_NoConsume(_, _, _, _)
EffectInputs_NoConsume(acc, trn, i, txo_count) ==
  IF ~acc.ok \/ i > Len(trn.inputs) THEN acc
  ELSE
    LET inp    == trn.inputs[i]
        record == trn.xfr_inputs[i]
    IN IF inp.ref = "Relative"
       THEN IF inp.n >= txo_count THEN Err("InputsError")
            ELSE LET ix == (txo_count - 1) - inp.n + 1
                 IN IF acc.txos[ix] = None THEN Err("InputsError")
                    ELSE IF acc.txos[ix] # record THEN Err("InputsError")
                    ELSE EffectInputs_NoConsume(acc, trn, i + 1, txo_count)
       ELSE IF inp.n \in DOMAIN acc.input_txos THEN Err("InputsError")
            ELSE EffectInputs_NoConsume(
                   [acc EXCEPT !.input_txos = (inp.n :> record) @@ @],
                   trn, i + 1, txo_count)

\* Mutant: an Absolute input named twice overwrites its entry.
RECURSIVE EffectInputs_AbsOverwrite(_, _, _, _)
EffectInputs_AbsOverwrite(acc, trn, i, txo_count) ==
  IF ~acc.ok \/ i > Len(trn.inputs) THEN acc
  ELSE
    LET inp    == trn.inputs[i]
        record == trn.xfr_inputs[i]
    IN IF inp.ref = "Relative"
       THEN IF inp.n >= txo_count THEN Err("InputsError")
            ELSE LET ix == (txo_count - 1) - inp.n + 1
                 IN IF acc.txos[ix] = None THEN Err("InputsError")
                    ELSE IF acc.txos[ix] # record THEN Err("InputsError")
                    ELSE EffectInputs_AbsOverwrite(
                           [acc EXCEPT !.txos[ix] = None],
                           trn, i + 1, txo_count)
       ELSE EffectInputs_AbsOverwrite(
              [acc EXCEPT !.input_txos =
                 (inp.n :> record) @@
                 [sid \in (DOMAIN @) \ {inp.n} |-> @[sid]]],
              trn, i + 1, txo_count)

\* The loop over trn.body.inputs zipped with trn.body.transfer.body.inputs;
\* txo_count is fixed during the loop (outputs are appended after it).
RECURSIVE EffectInputs(_, _, _, _)
EffectInputs(acc, trn, i, txo_count) ==
  IF ~acc.ok \/ i > Len(trn.inputs) THEN acc
  ELSE
    LET inp    == trn.inputs[i]
        record == trn.xfr_inputs[i]
    IN IF inp.ref = "Relative"
       THEN IF inp.n >= txo_count THEN Err("InputsError")
            ELSE LET ix == (txo_count - 1) - inp.n + 1
                 IN IF acc.txos[ix] = None THEN Err("InputsError")
                    ELSE IF acc.txos[ix] # record THEN Err("InputsError")
                    ELSE EffectInputs([acc EXCEPT !.txos[ix] = None],
                                      trn, i + 1, txo_count)
       ELSE IF inp.n \in DOMAIN acc.input_txos THEN Err("InputsError")
            ELSE EffectInputs(
                   [acc EXCEPT !.input_txos = (inp.n :> record) @@ @],
                   trn, i + 1, txo_count)

\* verify_xfr_note(prng, &trn.body.transfer, &null_policies): whether the
\* note verifies is a property of the note, whatever the generator yields.
verify_xfr_note(prng, trn) == trn.proof_ok

\* Mutant: the outcome of the proof verification depends on the generator.
EffectTransfer_PrngProof(prng, acc, trn) ==
  IF Len(trn.inputs) # Len(trn.xfr_inputs) THEN Err("InputsError")
  ELSE IF trn.num_outputs # Len(trn.xfr_outputs) THEN Err("InputsError")
  ELSE IF ~trn.sigs_ok THEN Err("InputsError")
  ELSE IF ~(trn.proof_ok /\ prng = SeedPrng) THEN Err("ZeiError")
  ELSE LET after == EffectInputs(acc, trn, 1, Len(acc.txos))
       IN IF ~after.ok THEN after
          ELSE [after EXCEPT !.txos = @ \o trn.xfr_outputs]

\* Operation::TransferAsset arm
EffectTransfer(prng, acc, trn) ==
  IF Len(trn.inputs) # Len(trn.xfr_inputs) THEN Err("InputsError")
  ELSE IF trn.num_outputs # Len(trn.xfr_outputs) THEN Err("InputsError")
  ELSE IF ~trn.sigs_ok THEN Err("InputsError")
  ELSE IF ~verify_xfr_note(prng, trn) THEN Err("ZeiError")
  ELSE LET after == EffectInputs(acc, trn, 1, Len(acc.txos))
       IN IF ~after.ok THEN after
          ELSE [after EXCEPT !.txos = @ \o trn.xfr_outputs]

EffectOp(prng, acc, op) ==
  CASE op.kind = "DefineAsset"   -> EffectDefine(acc, op)
    [] op.kind = "IssueAsset"    -> EffectIssue(acc, op)
    [] op.kind = "TransferAsset" -> EffectTransfer(prng, acc, op)

RECURSIVE EffectOps(_, _, _, _)
EffectOps(prng, acc, ops, i) ==
  IF ~acc.ok \/ i > Len(ops) THEN acc
  ELSE EffectOps(prng, EffectOp(prng, acc, ops[i]), ops, i + 1)

compute_effect(prng, txn) ==
  LET r == EffectOps(prng, EffectInit, txn, 1)
  IN IF r.ok THEN [r EXCEPT !.ok = TRUE] @@ [txn |-> txn] ELSE r


\* ---- TxnEffect::deep_invariant_check ----------------------------------------
\* The inner loops for one (txo_sid, record) of input_txos: no error is
\* returned and `found` is set at the end.
DeepInputOk(eff, txo_sid) ==
  LET record == eff.input_txos[txo_sid]
      trns   == { k \in 1..Len(eff.txn) : eff.txn[k].kind = "TransferAsset" }
      hits   == { p \in UNION { {k} \X (1..Len(eff.txn[k].inputs)) :
                                     k \in trns } :
                    /\ eff.txn[p[1]].inputs[p[2]].ref = "Absolute"
                    /\ eff.txn[p[1]].inputs[p[2]].n = txo_sid }
  IN /\ \A k \in trns :
          /\ Len(eff.txn[k].inputs) = Len(eff.txn[k].xfr_inputs)
          /\ \A j \in 1..Len(eff.txn[k].inputs) :
                LET ix         == eff.txn[k].inputs[j]
                    inp_record == eff.txn[k].xfr_inputs[j]
                IN IF ix.ref = "Absolute"
                   THEN ix.n = txo_sid => inp_record = record
                   ELSE inp_record # record
     /\ Cardinality(hits) = 1

deep_invariant_check(eff) ==
  IF /\ \A txo_sid \in DOMAIN eff.input_txos : DeepInputOk(eff, txo_sid)
     /\ compute_effect(SeedPrng, eff.txn) = eff
  THEN "Ok" ELSE "InvariantError"


\* ---- the transactions submitted to the ledger ----------------------------
\* Well-signed operations with a verifying transfer proof.
Define(c, p)       == DefineAsset(c, p, TRUE)
Issue(c, s, recs)  == IssueAsset(c, s, Len(recs), recs, TRUE)
Transfer(refs, recs, outs) ==
  TransferAsset(refs, recs, outs, Len(outs), TRUE, TRUE)

DefineTxns == { <<Define(c, p)>> : c \in Codes, p \in Props }
IssueTxns  == { <<Issue(c, s, <<1>>)>> : c \in Codes, s \in SeqNums }
\* one issuance with two outputs
Issue2Txns == { <<Issue("A", 0, <<1, 2>>)>> }
\* one Absolute input, two outputs
TransferTxns ==
  { <<Transfer(<<Absolute(s)>>, <<r>>, <<1, 2>>)>> :
      s \in 0..MaxAbsSid, r \in Records }
\* two Absolute inputs (TxoSID 0 and a later one), one output
Transfer2Txns ==
  { <<Transfer(<<Absolute(0), Absolute(s)>>, <<1, r>>, <<1>>)>> :
      s \in 1..MaxAbsSid, r \in Records }
\* define and issue in one transaction
DefineIssueTxns == { <<Define(c, "K1"), Issue(c, 0, <<1>>)>> : c \in Codes }
\* issue, then spend the issued output by a Relative reference
IssueSpendTxns ==
  { <<Issue("A", 1, <<1>>), Transfer(<<Relative(0)>>, <<1>>, outs)>> :
      outs \in {<<>>, <<1>>} }

Txns == DefineTxns \cup IssueTxns \cup Issue2Txns \cup TransferTxns
          \cup Transfer2Txns \cup DefineIssueTxns \cup IssueSpendTxns

\* The effects handed to apply_transaction: those compute_effect returns Ok.
Effects ==
  { e \in { compute_effect(prng, t) : prng \in Prngs, t \in Txns } : e.ok }


\* ---- state ---------------------------------------------------------------
VARIABLES
  utxos,                \* LedgerStatus.utxos: TxoSID -> record
  utxo_map_versions,    \* LedgerStatus.utxo_map_versions: Seq of <<TxnSID, digest>>
  asset_types,          \* LedgerStatus.asset_types: code -> properties
  issuance_num,         \* LedgerStatus.issuance_num: code -> u64
  next_txn,             \* LedgerStatus.next_txn
  next_txo,             \* LedgerStatus.next_txo
  global_hash,          \* LedgerStatus.global_hash
  global_commit_count,  \* LedgerStatus.global_commit_count
  merkle,               \* LedgerState.merkle: the leaves appended so far
  txs,                  \* LedgerState.txs: Seq of FinalizedTransaction
  utxo_map,             \* LedgerState.utxo_map: Seq of bits, bit i at i+1
  ret,                  \* what the last call returned, or where a call
                        \* in progress stands
  build,                \* "any", or "release" once a step only a release
                        \* build can take has been taken
  applied,              \* history: the effects applied successfully, in order
  disk,                 \* the files load reads: which exist, and what the
                        \* transaction log and the snapshot file hold
  lock,                 \* the RwLock around the LedgerState: whether a
                        \* writer holds it, how many readers, poisoned or not
  seen,                 \* what the last query under a read guard observed
  builder               \* a TransferOperationBuilder: its six fields

statusVars == <<utxos, utxo_map_versions, asset_types, issuance_num,
                next_txn, next_txo, global_hash, global_commit_count>>
ledgerVars == <<statusVars, merkle, txs, utxo_map>>
clients    == <<lock, seen, builder>>
vars       == <<ledgerVars, ret, build, applied, disk, clients>>

\* The LedgerStatus the variables hold.
status ==
  [utxos |-> utxos, utxo_map_versions |-> utxo_map_versions,
   asset_types |-> asset_types, issuance_num |-> issuance_num,
   next_txn |-> next_txn, next_txo |-> next_txo,
   global_hash |-> global_hash, global_commit_count |-> global_commit_count]

\* ---- LedgerStatus::apply_txn_effects --------------------------------------
\* Mutant: identifiers are handed out densely, skipping the None slots.
NewUtxoSids_Dense(txos, base, i) ==
  LET n == Cardinality({ k \in i..Len(txos) : txos[k] # None })
  IN [k \in 1..n |-> base + (i - 1) + (k - 1)]

\* new_utxo_sids: next_txo + ix for every Some slot, in slot order.
RECURSIVE NewUtxoSids(_, _, _)
NewUtxoSids(txos, base, i) ==
  IF i > Len(txos) THEN <<>>
  ELSE IF txos[i] # None
       THEN <<base + (i - 1)>> \o NewUtxoSids(txos, base, i + 1)
       ELSE NewUtxoSids(txos, base, i + 1)

\* Mutant: the claimed record is not compared with the stored one.
InputsUnspent_PresenceOnly(st, eff) ==
  \A sid \in DOMAIN eff.input_txos : sid \in DOMAIN st.utxos

\* Stage 1, inputs: each input must be unspent and carry the claimed record.
InputsUnspent(st, eff) ==
  \A sid \in DOMAIN eff.input_txos :
     /\ sid \in DOMAIN st.utxos
     /\ st.utxos[sid] = eff.input_txos[sid]

\* Mutant: the check for already registered codes is missing.
AssetCodesFresh_Unchecked(st, eff) == TRUE

\* Stage 1, new asset types must not already exist.
AssetCodesFresh(st, eff) ==
  \A code \in DOMAIN eff.new_asset_codes :
     /\ code \notin DOMAIN st.asset_types
     /\ code \notin DOMAIN st.issuance_num

\* Mutant: the comparison rejects a sequence number equal to the limit.
BelowLimit_OrEqual(min_seq_num, curr_seq_num_limit) ==
  min_seq_num <= curr_seq_num_limit

\* Stage 1, the comparison of the least new sequence number with the limit.
BelowLimit(min_seq_num, curr_seq_num_limit) ==
  min_seq_num < curr_seq_num_limit

\* Stage 1, new issuance numbers: the codes on which the loop body returns
\* Err, and those on which issuance_num.get(&code).unwrap() panics.
IssuanceErrCodes(st, eff) ==
  { code \in DOMAIN eff.new_issuance_nums :
      LET seq_nums == eff.new_issuance_nums[code]
      IN IF Len(seq_nums) = 0
         THEN code \notin DOMAIN eff.new_asset_codes
         ELSE /\ code \in DOMAIN st.issuance_num
              /\ BelowLimit(seq_nums[1], st.issuance_num[code]) }

IssuancePanicCodes(st, eff) ==
  { code \in DOMAIN eff.new_issuance_nums :
      /\ Len(eff.new_issuance_nums[code]) > 0
      /\ code \notin DOMAIN st.issuance_num }

\* The results stage 1 can have.  The HashMap is walked in an unspecified
\* order, so when one code returns Err and another panics either comes first.
Validate(st, eff) ==
  IF ~InputsUnspent(st, eff) THEN {"Err"}
  ELSE IF ~AssetCodesFresh(st, eff) THEN {"Err"}
  ELSE LET e == IssuanceErrCodes(st, eff)
           p == IssuancePanicCodes(st, eff)
       IN IF e = {} /\ p = {} THEN {"Ok"}
          ELSE (IF e # {} THEN {"Err"} ELSE {})
                 \cup (IF p # {} THEN {"Panic"} ELSE {})

\* The PlatformError a failing stage 1 returns: each of its `return Err(..)`
\* (missing or mismatching input, asset type already there, issuance of an
\* undefined code or below the limit) names the same variant.
ValidateError(st, eff) ==
  IF ~InputsUnspent(st, eff) THEN "InputsError"
  ELSE IF ~AssetCodesFresh(st, eff) THEN "InputsError"
  ELSE "InputsError"

\* Mutant: consumed UTXOs stay in the map.
RemoveConsumed_Kept(u, eff) == u

\* Mutant: a transaction with inputs empties the map.
RemoveConsumed_All(u, eff) ==
  IF DOMAIN eff.input_txos = {} THEN u ELSE EmptyMap

\* Stage 2: remove consumed UTXOs.
RemoveConsumed(u, eff) ==
  [sid \in (DOMAIN u) \ (DOMAIN eff.input_txos) |-> u[sid]]

\* Stage 2: add new UTXOs, zipping new_utxo_sids with the Some slots.
AddNewUtxos(u, eff, base) ==
  LET some == { i \in 1..Len(eff.txos) : eff.txos[i] # None }
      new  == [sid \in { base + (i - 1) : i \in some } |->
                 eff.txos[sid - base + 1]]
  IN new @@ u

\* Stage 2: one more than the greatest sequence number, or 0 (x+1 on a u64,
\* as a release build computes it).
NewMaxSeqNum(seq_nums) ==
  IF Len(seq_nums) = 0 THEN 0
  ELSE (seq_nums[Len(seq_nums)] + 1) % (U64_MAX + 1)

\* x+1 overflows: a debug build panics there.
SeqOverflows(eff) ==
  \E code \in DOMAIN eff.new_issuance_nums :
     LET seq_nums == eff.new_issuance_nums[code]
     IN Len(seq_nums) > 0 /\ seq_nums[Len(seq_nums)] = U64_MAX

UpdateIssuanceNum(inum, eff) ==
  [code \in (DOMAIN inum) \cup (DOMAIN eff.new_issuance_nums) |->
     IF code \in DOMAIN eff.new_issuance_nums
     THEN NewMaxSeqNum(eff.new_issuance_nums[code])
     ELSE inum[code]]

RegisterAssetTypes(at, eff) == eff.new_asset_codes @@ at

\* Mutant: next_txn is not advanced.
ApplyEffects_TxnNotCounted(st, eff) ==
  [st EXCEPT
     !.next_txo     = @ + Len(eff.txos),
     !.utxos        = AddNewUtxos(RemoveConsumed(@, eff), eff, st.next_txo),
     !.issuance_num = UpdateIssuanceNum(@, eff),
     !.asset_types  = RegisterAssetTypes(@, eff)]

\* Mutant: next_txo advances by the number of Some slots only.
ApplyEffects_SomeSlotsOnly(st, eff) ==
  [st EXCEPT
     !.next_txn     = @ + 1,
     !.next_txo     = @ + Len(NewUtxoSids(eff.txos, 0, 1)),
     !.utxos        = AddNewUtxos(RemoveConsumed(@, eff), eff, st.next_txo),
     !.issuance_num = UpdateIssuanceNum(@, eff),
     !.asset_types  = RegisterAssetTypes(@, eff)]

\* Mutant: applying a transaction also counts as a commit.
ApplyEffects_CountsCommit(st, eff) ==
  [st EXCEPT
     !.next_txn     = @ + 1,
     !.next_txo     = @ + Len(eff.txos),
     !.utxos        = AddNewUtxos(RemoveConsumed(@, eff), eff, st.next_txo),
     !.issuance_num = UpdateIssuanceNum(@, eff),
     !.asset_types  = RegisterAssetTypes(@, eff),
     !.global_commit_count = @ + 1]

\* Stage 2 as a whole.
ApplyEffects(st, eff) ==
  [st EXCEPT
     !.next_txn     = @ + 1,
     !.next_txo     = @ + Len(eff.txos),
     !.utxos        = AddNewUtxos(RemoveConsumed(@, eff), eff, st.next_txo),
     !.issuance_num = UpdateIssuanceNum(@, eff),
     !.asset_types  = RegisterAssetTypes(@, eff)]

\* Mutant: the counters advance before stage 1, so a rejection keeps them.
apply_txn_effects_CountersFirst(st, eff) ==
  LET new_txn       == st.next_txn
      new_utxo_sids == NewUtxoSids(eff.txos, st.next_txo, 1)
      early         == [st EXCEPT !.next_txn = @ + 1,
                                  !.next_txo = @ + Len(eff.txos)]
      out(kind, s, rel) ==
        [kind |-> kind, st |-> s, txn_sid |-> new_txn,
         utxo_sids |-> new_utxo_sids, release |-> rel]
      v == Validate(st, eff)
  IN    { out("Err", early, FALSE) : k \in v \cap {"Err"} }
   \cup { out("Panic", st, FALSE)  : k \in v \cap {"Panic"} }
   \cup { o \in { out("Ok", ApplyEffects(st, eff), SeqOverflows(eff)),
                  out("PanicDebug", st, FALSE) } :
            /\ "Ok" \in v
            /\ o.kind = "PanicDebug" => SeqOverflows(eff) }

\* The outcomes of apply_txn_effects: what it returns (or that it panics),
\* the LedgerStatus it leaves, and whether only a release build gets there.
apply_txn_effects(st, eff) ==
  LET new_txn       == st.next_txn
      new_utxo_sids == NewUtxoSids(eff.txos, st.next_txo, 1)
      out(kind, s, rel) ==
        [kind |-> kind, st |-> s, txn_sid |-> new_txn,
         utxo_sids |-> new_utxo_sids, release |-> rel]
      v == Validate(st, eff)
  IN    { out("Err", st, FALSE)   : k \in v \cap {"Err"} }
   \cup { out("Panic", st, FALSE) : k \in v \cap {"Panic"} }
   \cup { o \in { out("Ok", ApplyEffects(st, eff), SeqOverflows(eff)),
                  out("PanicDebug", st, FALSE) } :
            /\ "Ok" \in v
            /\ o.kind = "PanicDebug" => SeqOverflows(eff) }


\* ---- BitMap, AppendOnlyMerkle, sha256 -------------------------------------
\* BitMap::set extends the map by one bit when ix is its length.
BitSet(bits, ix) ==
  IF ix < Len(bits) THEN [bits EXCEPT ![ix + 1] = TRUE]
  ELSE IF ix = Len(bits) THEN Append(bits, TRUE)
  ELSE bits

BitClear(bits, ix) ==
  IF ix < Len(bits) THEN [bits EXCEPT ![ix + 1] = FALSE] ELSE bits

compute_checksum(bits) == <<"bitmap", bits>>
get_root_hash(leaves)  == <<"merkle", leaves>>
compute_merkle_hash(txn, txn_sid) == <<"txn", txn, txn_sid>>
\* Mutant: the digest covers the bitmap and the Merkle root only.
GlobalHashData_NoChain(bitmap, root, block, prev) == <<"sha256", bitmap, root>>

\* sha256::hash over the bytes of a GlobalHashData
GlobalHashData(bitmap, root, block, prev) == <<"sha256", bitmap, root, block, prev>>

\* ---- LedgerState::apply_transaction ---------------------------------------
\* The loop over base_sid..max_sid that updates the UTXO bitmap.  `failed`
\* records that a debug_assert! of the block was false.
RECURSIVE BitmapLoop(_, _, _, _, _, _)
BitmapLoop(bits, ix, max_sid, utxo_sids, utxo_ix, failed) ==
  IF ix >= max_sid
  THEN [bits |-> bits, failed |-> failed \/ utxo_ix # Len(utxo_sids)]
  ELSE LET f  == failed \/ ~(utxo_ix < Len(utxo_sids))
           b1 == BitSet(bits, ix)
       IN IF utxo_ix < Len(utxo_sids)
          THEN IF utxo_sids[utxo_ix + 1] # ix
               THEN BitmapLoop(BitClear(b1, ix), ix + 1, max_sid,
                               utxo_sids, utxo_ix, f)
               ELSE BitmapLoop(b1, ix + 1, max_sid, utxo_sids, utxo_ix + 1, f)
          ELSE BitmapLoop(b1, ix + 1, max_sid, utxo_sids, utxo_ix, f)

UpdateBitmap(bits, base_sid, max_sid, utxo_sids) ==
  BitmapLoop(bits, base_sid, max_sid, utxo_sids, 0, FALSE)

FinalizedTransaction(txn, tx_id, merkle_id) ==
  [txn |-> txn, tx_id |-> tx_id, merkle_id |-> merkle_id]

SetStatus(st) ==
  /\ utxos' = st.utxos
  /\ utxo_map_versions' = st.utxo_map_versions
  /\ asset_types' = st.asset_types
  /\ issuance_num' = st.issuance_num
  /\ next_txn' = st.next_txn
  /\ next_txo' = st.next_txo
  /\ global_hash' = st.global_hash
  /\ global_commit_count' = st.global_commit_count

Alive == ret.kind # "Panic"

\* A panic ends the process; the variables keep the values they had when the
\* call began (nothing reads them afterwards).
Panics ==
  /\ ret' = [kind |-> "Panic"]
  /\ UNCHANGED <<ledgerVars, build, applied, disk, clients>>

apply_transaction(eff) ==
  /\ Alive
  /\ \E o \in apply_txn_effects(status, eff) :
       CASE o.kind = "Err" ->
              /\ SetStatus(o.st)
              /\ ret' = [kind |-> "Err", err |-> ValidateError(status, eff)]
              /\ UNCHANGED <<merkle, txs, utxo_map, build, applied, disk, clients>>
         [] o.kind = "Panic" -> Panics
         [] o.kind = "PanicDebug" -> build = "any" /\ Panics
         [] o.kind = "Ok" ->
              /\ next_txn < MaxTxns
              /\ LET base_sid == next_txo
                     max_sid  == o.st.next_txo
                     bm       == UpdateBitmap(utxo_map, base_sid, max_sid,
                                              o.utxo_sids)
                     hash     == compute_merkle_hash(eff.txn, o.txn_sid)
                     merkle_id == Len(merkle)
                 IN \/ /\ bm.failed
                       /\ build = "any"
                       /\ Panics
                    \/ /\ SetStatus(o.st)
                       /\ utxo_map' = bm.bits
                       /\ merkle' = Append(merkle, hash)
                       /\ txs' = Append(txs, FinalizedTransaction(
                                               eff.txn, o.txn_sid, merkle_id))
                       /\ ret' = [kind |-> "Ok", txn_sid |-> o.txn_sid,
                                  utxo_sids |-> o.utxo_sids]
                       /\ build' = IF o.release \/ bm.failed
                                   THEN "release" ELSE build
                       /\ applied' = Append(applied, eff)
                       /\ UNCHANGED <<disk, clients>>

\* ---- LedgerState::checkpoint ----------------------------------------------
\* Mutant: the oldest entry is never evicted.
save_utxo_map_version_NoEvict(versions, txn, checksum) ==
  Append(versions, <<txn, checksum>>)

save_utxo_map_version(versions, txn, checksum) ==
  Append(IF Len(versions) >= MAX_VERSION THEN Tail(versions) ELSE versions,
         <<txn, checksum>>)

\* Mutant: the counter is incremented before it is hashed.
save_global_hash_PostIncrement(st, bits, leaves) ==
  [st EXCEPT
     !.global_hash = GlobalHashData(compute_checksum(bits),
                                    get_root_hash(leaves),
                                    st.global_commit_count + 1, st.global_hash),
     !.global_commit_count = @ + 1]

save_global_hash(st, bits, leaves) ==
  [st EXCEPT
     !.global_hash = GlobalHashData(compute_checksum(bits),
                                    get_root_hash(leaves),
                                    st.global_commit_count, st.global_hash),
     !.global_commit_count = @ + 1]

do_checkpoint ==
  /\ Alive
  /\ LET st1 == [status EXCEPT !.utxo_map_versions =
                    save_utxo_map_version(@, next_txn,
                                          compute_checksum(utxo_map))]
     IN SetStatus(save_global_hash(st1, utxo_map, merkle))
  /\ ret' = [kind |-> "Checkpoint"]
  /\ UNCHANGED <<merkle, txs, utxo_map, build, applied, disk, clients>>

checkpoint == global_commit_count < MaxCheckpoints /\ do_checkpoint

\* ---- LedgerState::snapshot ------------------------------------------------
\* Mutant: the identifier is the commit counter.
snapshot_CommitCount ==
  /\ Alive
  /\ ret' = [kind |-> "Snapshot", id |-> global_commit_count]
  /\ UNCHANGED <<ledgerVars, build, applied, disk, clients>>

snapshot ==
  /\ Alive
  /\ ret' = [kind |-> "Snapshot", id |-> Len(merkle)]
  /\ UNCHANGED <<ledgerVars, build, applied, disk, clients>>

\* ---- LedgerAccess for LedgerState ------------------------------------------
Some(x)  == [some |-> TRUE, value |-> x]
NoneOpt  == [some |-> FALSE]

\* Mutant: the version is used as an index into the retained entries.
get_utxo_checksum_ByIndex(versions, version) ==
  IF version + 1 \in 1..Len(versions)
  THEN Some(versions[version + 1][2]) ELSE NoneOpt

\* The first retained entry whose TxnSID is `version`, if any.
get_utxo_checksum(versions, version) ==
  LET hits == { i \in 1..Len(versions) : versions[i][1] = version }
  IN IF hits = {} THEN NoneOpt
     ELSE Some(versions[CHOOSE i \in hits : \A j \in hits : i <= j][2])

get_global_hash(st) == <<st.global_hash, st.global_commit_count>>

\* ---- ArchiveAccess for LedgerState -----------------------------------------
\* AppendOnlyMerkle::get_proof for a leaf of the current tree.
MerkleProof(leaves, leaf) ==
  IF leaf < Len(leaves)
  THEN [ok |-> TRUE, leaf |-> leaf, hash |-> leaves[leaf + 1],
        root |-> get_root_hash(leaves)]
  ELSE [ok |-> FALSE]

\* Mutant: the entry after the asked one is returned.
get_transaction_OffByOne(list, addr) ==
  IF addr + 1 < Len(list) THEN Some(list[addr + 2]) ELSE NoneOpt

\* self.txs.get(addr.0)
get_transaction(list, addr) ==
  IF addr < Len(list) THEN Some(list[addr + 1]) ELSE NoneOpt

\* Some(proof) of the recorded leaf; unwrap() panics when the tree has none.
get_proof(list, leaves, addr) ==
  LET t == get_transaction(list, addr)
  IN IF ~t.some THEN NoneOpt
     ELSE LET pr == MerkleProof(leaves, t.value.merkle_id)
          IN IF pr.ok THEN Some(pr) ELSE [some |-> FALSE, panic |-> TRUE]

\* ---- files -----------------------------------------------------------------
NoFile == [exists |-> FALSE]
\* A transaction log: each entry either deserializes to a
\* FinalizedTransaction or does not.
LogFile(entries) == [exists |-> TRUE, entries |-> entries]
\* A snapshot file that deserializes to a LedgerStatus, and one that does not.
SnapshotFile(st) == [exists |-> TRUE, valid |-> TRUE, status |-> st]
CorruptSnapshot  == [exists |-> TRUE, valid |-> FALSE]
\* The Merkle tree file and the bitmap file, as far as load looks at them.
Present == [exists |-> TRUE]

\* What LedgerState::new (create = true) leaves on disk: the Merkle tree, the
\* bitmap and an empty transaction log; no snapshot file.
NewDisk ==
  [merkle |-> Present, utxo_map |-> Present,
   txn_log |-> LogFile(<<>>), snapshot |-> NoFile]

\* ---- TransferOperationBuilder::new ------------------------------------------
NewBuilder ==
  [input_sids |-> <<>>, input_records |-> <<>>, spend_amounts |-> <<>>,
   output_records |-> <<>>, transfer |-> NoneOpt, transfer_type |-> "Standard"]

\* ---- Arc<RwLock<LedgerState>> ----------------------------------------------
\* RwLock::new: no guard is out and the lock is not poisoned.
Unlocked == [writer |-> FALSE, readers |-> 0, poisoned |-> FALSE]

\* ---- LedgerState::new -----------------------------------------------------
Init ==
  /\ utxos = EmptyMap
  /\ utxo_map_versions = <<>>
  /\ asset_types = EmptyMap
  /\ issuance_num = EmptyMap
  /\ next_txn = 0
  /\ next_txo = 0
  /\ global_hash = ZeroDigest
  /\ global_commit_count = 0
  /\ merkle = <<>>
  /\ txs = <<>>
  /\ utxo_map = <<>>
  /\ ret = [kind |-> "New"]
  /\ build = "any"
  /\ applied = <<>>
  /\ lock = Unlocked
  /\ seen = NoneOpt
  /\ builder = NewBuilder
  /\ disk = NewDisk

Next ==
  \/ \E eff \in Effects : apply_transaction(eff)
  \/ checkpoint
  \/ snapshot

Spec == Init /\ [][Next]_vars

\* ---- long runs of checkpoints ----------------------------------------------
\* The version history only evicts after MAX_VERSION checkpoints: a ledger
\* that defines an asset, issues it once and is checkpointed many times.
LongEffects ==
  { compute_effect(prng, t) :
      prng \in Prngs, t \in { <<Define("A", "K1")>>, <<Issue("A", 0, <<1>>)>> } }

checkpoint_long == global_commit_count < MaxLongCheckpoints /\ do_checkpoint

NextLong ==
  \/ \E eff \in LongEffects : apply_transaction(eff)
  \/ checkpoint_long

SpecLong == Init /\ [][NextLong]_vars

\* ---- apply_transaction, statement by statement ------------------------------
\* The same handler with the process observable between its three blocks:
\* after apply_txn_effects returned, after the bitmap loop, and at the return.
apply_begin(eff) ==
  /\ Alive
  /\ ret.kind # "Applying"
  /\ \E o \in apply_txn_effects(status, eff) :
       CASE o.kind = "Err" ->
              /\ SetStatus(o.st)
              /\ ret' = [kind |-> "Err", err |-> ValidateError(status, eff)]
              /\ UNCHANGED <<merkle, txs, utxo_map, build, applied, disk, clients>>
         [] o.kind = "Panic" -> Panics
         [] o.kind = "PanicDebug" -> build = "any" /\ Panics
         [] o.kind = "Ok" ->
              /\ next_txn < MaxTxns
              /\ SetStatus(o.st)
              /\ ret' = [kind |-> "Applying", at |-> "bitmap", eff |-> eff,
                         base_sid |-> next_txo, txn_sid |-> o.txn_sid,
                         utxo_sids |-> o.utxo_sids]
              /\ build' = IF o.release THEN "release" ELSE build
              /\ UNCHANGED <<merkle, txs, utxo_map, applied, disk, clients>>

apply_bitmap ==
  /\ ret.kind = "Applying"
  /\ ret.at = "bitmap"
  /\ LET bm == UpdateBitmap(utxo_map, ret.base_sid, next_txo, ret.utxo_sids)
     IN \/ /\ bm.failed
           /\ build = "any"
           /\ Panics
        \/ /\ utxo_map' = bm.bits
           /\ ret' = [ret EXCEPT !.at = "merkle"]
           /\ build' = IF bm.failed THEN "release" ELSE build
           /\ UNCHANGED <<statusVars, merkle, txs, applied, disk, clients>>

\* merkle.append(&hash).unwrap() either returns the leaf index or, on an I/O
\* failure, panics.
apply_merkle ==
  /\ ret.kind = "Applying"
  /\ ret.at = "merkle"
  /\ \/ Panics
     \/ LET hash      == compute_merkle_hash(ret.eff.txn, ret.txn_sid)
            merkle_id == Len(merkle)
        IN /\ merkle' = Append(merkle, hash)
           /\ txs' = Append(txs, FinalizedTransaction(
                                   ret.eff.txn, ret.txn_sid, merkle_id))
           /\ ret' = [kind |-> "Ok", txn_sid |-> ret.txn_sid,
                      utxo_sids |-> ret.utxo_sids]
           /\ applied' = Append(applied, ret.eff)
           /\ UNCHANGED <<statusVars, utxo_map, build, disk, clients>>

NextSteps ==
  \/ \E eff \in Effects : apply_begin(eff)
  \/ apply_bitmap
  \/ apply_merkle

SpecSteps == Init /\ [][NextSteps]_vars

\* ---- the ledger behind its lock ----------------------------------------------
\* The validator node keeps the ledger in an Arc<RwLock<..>>: updates take the
\* write guard, queries the read guard.  apply_transaction runs statement by
\* statement while its guard is held.

\* RwLock::write returns a guard when no guard is out; on a poisoned lock it
\* returns Err and the callers skip the update.
write_lock ==
  /\ Alive
  /\ ~lock.writer /\ lock.readers = 0 /\ ~lock.poisoned
  /\ lock' = [lock EXCEPT !.writer = TRUE]
  /\ UNCHANGED <<ledgerVars, ret, build, applied, disk, seen, builder>>

\* The write guard is dropped when the call made under it has returned.
write_unlock ==
  /\ Alive
  /\ lock.writer
  /\ ret.kind # "Applying"
  /\ lock' = [lock EXCEPT !.writer = FALSE]
  /\ UNCHANGED <<ledgerVars, ret, build, applied, disk, seen, builder>>

\* A panic under the write guard unwinds through it: the guard is dropped and
\* the lock is poisoned.
poison ==
  /\ ret.kind = "Panic"
  /\ lock.writer
  /\ lock' = [lock EXCEPT !.writer = FALSE, !.poisoned = TRUE]
  /\ UNCHANGED <<ledgerVars, ret, build, applied, disk, seen, builder>>

\* Mutant: a read guard is handed out while the write guard is held.
read_lock_Unguarded ==
  /\ ~lock.poisoned
  /\ lock.readers < MaxReaders
  /\ lock' = [lock EXCEPT !.readers = @ + 1]
  /\ UNCHANGED <<ledgerVars, ret, build, applied, disk, seen, builder>>

\* RwLock::read returns a guard when no writer holds the lock; on a poisoned
\* lock it returns Err and the `if let Ok(..)` of the callers skips the query.
read_lock ==
  /\ ~lock.writer /\ ~lock.poisoned
  /\ lock.readers < MaxReaders
  /\ lock' = [lock EXCEPT !.readers = @ + 1]
  /\ UNCHANGED <<ledgerVars, ret, build, applied, disk, seen, builder>>

\* A query under a read guard: the counters and the extents of the three
\* structures, read through the accessors of LedgerAccess / ArchiveAccess.
query ==
  /\ lock.readers > 0
  /\ seen' = Some([next_txn |-> next_txn, next_txo |-> next_txo,
                   txs |-> Len(txs), merkle |-> Len(merkle),
                   utxo_map |-> Len(utxo_map)])
  /\ UNCHANGED <<ledgerVars, ret, build, applied, disk, lock, builder>>

read_unlock ==
  /\ lock.readers > 0
  /\ lock' = [lock EXCEPT !.readers = @ - 1]
  /\ UNCHANGED <<ledgerVars, ret, build, applied, disk, seen, builder>>

\* The updates made under the lock: a definition, an issuance, and an
\* issuance whose output the same transaction transfers on.
LockEffects ==
  { compute_effect(prng, t) :
      prng \in Prngs,
      t \in { <<Define("A", "K1")>>, <<Issue("A", 0, <<1>>)>>,
              <<Issue("A", 1, <<1>>),
                Transfer(<<Relative(0)>>, <<1>>, <<1>>)>> } }

NextLock ==
  \/ write_lock
  \/ lock.writer /\ \E eff \in LockEffects : apply_begin(eff)
  \/ lock.writer /\ apply_bitmap
  \/ lock.writer /\ apply_merkle
  \/ lock.writer /\ ret.kind # "Applying" /\ checkpoint
  \/ lock.writer /\ ret.kind # "Applying" /\ snapshot
  \/ write_unlock
  \/ poison
  \/ read_lock
  \/ query
  \/ read_unlock

SpecLock == Init /\ [][NextLock]_vars

\* ---- LedgerState::load ------------------------------------------------------
\* load_transaction_log: entries are read until one fails to deserialize.
load_transaction_log(file) ==
  LET n   == Len(file.entries)
      bad == { i \in 1..n : ~file.entries[i].good }
      k   == IF bad = {} THEN n
             ELSE (CHOOSE i \in bad : \A j \in bad : i <= j) - 1
  IN [i \in 1..k |-> file.entries[i].ftx]

\* Mutant: a log longer than the snapshot's count passes.
TxnCountMatches_AtLeast(log_txs, st) == Len(log_txs) >= st.next_txn

\* assert!(ledger.txs.len() == ledger.status.next_txn.0)
TxnCountMatches(log_txs, st) == Len(log_txs) = st.next_txn

\* A process starts and loads the ledger from the files on disk.
load ==
  /\ ret.kind = "Start"
  /\ IF \/ ~disk.merkle.exists
        \/ ~disk.utxo_map.exists
        \/ ~disk.txn_log.exists
        \/ ~disk.snapshot.exists
        \/ ~disk.snapshot.valid
     THEN /\ ret' = [kind |-> "Err", err |-> "io::Error"]
          /\ UNCHANGED <<ledgerVars, build, applied, disk, clients>>
     ELSE LET log_txs == load_transaction_log(disk.txn_log)
              st      == disk.snapshot.status
          IN IF TxnCountMatches(log_txs, st)
             THEN /\ SetStatus(st)
                  /\ txs' = log_txs
                  /\ ret' = [kind |-> "Loaded"]
                  /\ UNCHANGED <<merkle, utxo_map, build, applied, disk, clients>>
             ELSE Panics

\* The files a starting process can find.
LogEntry(i, good) ==
  IF good
  THEN [good |-> TRUE,
        ftx  |-> FinalizedTransaction(<<Define("A", "K1")>>, i - 1, i - 1)]
  ELSE [good |-> FALSE]

LogFiles ==
  {NoFile} \cup
  { LogFile([i \in 1..n |-> LogEntry(i, b[i])]) :
      n \in 0..MaxLogLen, b \in [1..MaxLogLen -> BOOLEAN] }

SnapshotFiles ==
  {NoFile, CorruptSnapshot} \cup
  { SnapshotFile([utxos |-> EmptyMap, utxo_map_versions |-> <<>>,
                  asset_types |-> EmptyMap, issuance_num |-> EmptyMap,
                  next_txn |-> n, next_txo |-> 0,
                  global_hash |-> ZeroDigest, global_commit_count |-> 0]) :
      n \in 0..MaxLogLen }

\* Before load returns there is no LedgerState: the ledger variables hold the
\* fields of an empty one, merkle and utxo_map the contents of their files.
InitLoad ==
  /\ utxos = EmptyMap
  /\ utxo_map_versions = <<>>
  /\ asset_types = EmptyMap
  /\ issuance_num = EmptyMap
  /\ next_txn = 0
  /\ next_txo = 0
  /\ global_hash = ZeroDigest
  /\ global_commit_count = 0
  /\ merkle = <<>>
  /\ txs = <<>>
  /\ utxo_map = <<>>
  /\ ret = [kind |-> "Start"]
  /\ build = "any"
  /\ applied = <<>>
  /\ lock = Unlocked
  /\ seen = NoneOpt
  /\ builder = NewBuilder
  /\ disk \in [merkle : {NoFile, Present}, utxo_map : {NoFile, Present},
               txn_log : LogFiles, snapshot : SnapshotFiles]

NextLoad == load

SpecLoad == InitLoad /\ [][NextLoad]_vars

\* ---- compute_effect on its own ----------------------------------------------
\* The operations a transaction handed to compute_effect is made of: well
\* formed ones and ones with a bad signature, proof or count.
EffectOperations ==
  { Define("A", "K1"), Define("A", "K2"), Define("B", "K1"),
    DefineAsset("A", "K1", FALSE),
    Issue("A", 0, <<1>>), Issue("A", 1, <<1>>), Issue("B", 0, <<2>>),
    Issue("A", 0, <<1, 2>>),
    IssueAsset("A", 1, 2, <<1>>, TRUE), IssueAsset("A", 0, 1, <<1>>, FALSE),
    Transfer(<<Relative(0)>>, <<1>>, <<1>>),
    Transfer(<<Relative(0)>>, <<2>>, <<>>),
    Transfer(<<Relative(1)>>, <<1>>, <<2>>),
    Transfer(<<Relative(0), Relative(0)>>, <<1, 1>>, <<>>),
    Transfer(<<Absolute(0)>>, <<1>>, <<2>>),
    Transfer(<<Absolute(0)>>, <<2>>, <<>>),
    Transfer(<<Absolute(1)>>, <<1>>, <<1>>),
    Transfer(<<Absolute(0), Absolute(0)>>, <<1, 1>>, <<>>),
    Transfer(<<Absolute(0), Relative(0)>>, <<1, 1>>, <<1>>),
    Transfer(<<Absolute(0), Relative(0)>>, <<1, 2>>, <<1>>),
    TransferAsset(<<Absolute(0)>>, <<1>>, <<2>>, 1, TRUE, FALSE),
    TransferAsset(<<Absolute(0)>>, <<1>>, <<2>>, 1, FALSE, TRUE),
    TransferAsset(<<Absolute(0)>>, <<1, 2>>, <<2>>, 1, TRUE, TRUE),
    TransferAsset(<<Absolute(0)>>, <<1>>, <<2>>, 2, TRUE, TRUE) }

EffectTxns ==
  UNION { [1..n -> EffectOperations] : n \in 1..MaxOps }

\* compute_effect is run on a transaction and on a clone of it, each call
\* with its own generator.
InitEffect ==
  /\ utxos = EmptyMap
  /\ utxo_map_versions = <<>>
  /\ asset_types = EmptyMap
  /\ issuance_num = EmptyMap
  /\ next_txn = 0
  /\ next_txo = 0
  /\ global_hash = ZeroDigest
  /\ global_commit_count = 0
  /\ merkle = <<>>
  /\ txs = <<>>
  /\ utxo_map = <<>>
  /\ ret \in { [kind |-> "Txn", txn |-> t] : t \in EffectTxns }
  /\ build = "any"
  /\ applied = <<>>
  /\ lock = Unlocked
  /\ seen = NoneOpt
  /\ builder = NewBuilder
  /\ disk = NewDisk

compute ==
  /\ ret.kind = "Txn"
  /\ \E prng1, prng2 \in Prngs :
       ret' = [kind |-> "Effect", txn |-> ret.txn,
               result |-> compute_effect(prng1, ret.txn),
               again  |-> compute_effect(prng2, ret.txn)]
  /\ UNCHANGED <<ledgerVars, build, applied, disk, clients>>

NextEffect == compute

SpecEffect == InitEffect /\ [][NextEffect]_vars



\* ---- TransferOperationBuilder ------------------------------------------------
\* AssetRecord::new / an opened asset record: amount, asset type, owner key.
AssetRecord(amount, asset_type, public_key) ==
  [amount |-> amount, asset_type |-> asset_type, public_key |-> public_key]

XfrKeys == {"alice", "bob"}

\* The arguments handed to add_input (an opened record and the amount of it to
\* spend) and to add_output.
BuilderInputs ==
  { [txo_sid |-> Relative(1), open_ar |-> AssetRecord(3, "A", "alice"),
     amount |-> 3],
    [txo_sid |-> Relative(1), open_ar |-> AssetRecord(2, "B", "bob"),
     amount |-> 1],
    [txo_sid |-> Relative(1), open_ar |-> AssetRecord(2, "B", "bob"),
     amount |-> 3] }
BuilderOutputs ==
  { [amount |-> 1, recipient |-> "bob", code |-> "A"],
    [amount |-> 3, recipient |-> "bob", code |-> "A"],
    [amount |-> 1, recipient |-> "bob", code |-> "B"] }

\* u64 sums: the exact total, whether it overflows, and the wrapped value a
\* release build computes.
RECURSIVE Total(_)
Total(amounts) ==
  IF amounts = <<>> THEN 0 ELSE amounts[1] + Total(Tail(amounts))
Overflows(amounts) == Total(amounts) > U64_MAX
WrappingSum(amounts) == Total(amounts) % (U64_MAX + 1)
Amounts(records) == [i \in 1..Len(records) |-> records[i].amount]

BuilderErr(call, err) == [kind |-> "Err", call |-> call, err |-> err]
BuilderOk(call) == [kind |-> "Ok", call |-> call]
BuilderVars == <<ledgerVars, build, applied, disk, lock, seen>>

\* Mutant: add_output without the check of self.transfer.
add_output_Unfrozen(amount, recipient, code) ==
  /\ Alive
  /\ Len(builder.output_records) < MaxOutputs + MaxInputs
  /\ builder' = [builder EXCEPT !.output_records =
                    Append(@, AssetRecord(amount, code, recipient))]
  /\ ret' = BuilderOk("add_output")
  /\ UNCHANGED BuilderVars

add_input(txo_sid, open_ar, amount) ==
  /\ Alive
  /\ IF builder.transfer.some
     THEN /\ ret' = BuilderErr("add_input", "InvariantError")
          /\ UNCHANGED builder
     ELSE /\ Len(builder.input_sids) < MaxInputs
          /\ builder' = [builder EXCEPT
                           !.input_sids = Append(@, txo_sid),
                           !.input_records = Append(@, open_ar),
                           !.spend_amounts = Append(@, amount)]
          /\ ret' = BuilderOk("add_input")
  /\ UNCHANGED BuilderVars

add_output(amount, recipient, code) ==
  /\ Alive
  /\ IF builder.transfer.some
     THEN /\ ret' = BuilderErr("add_output", "InvariantError")
          /\ UNCHANGED builder
     ELSE /\ Len(builder.output_records) < MaxOutputs
          /\ builder' = [builder EXCEPT !.output_records =
                            Append(@, AssetRecord(amount, code, recipient))]
          /\ ret' = BuilderOk("add_output")
  /\ UNCHANGED BuilderVars

\* The remainder records of the loop over spend_amounts zipped with
\* input_records, and whether the loop returns Err.
SpendsTooMuch(b) ==
  \E i \in 1..Len(b.spend_amounts) :
     b.spend_amounts[i] > b.input_records[i].amount
RECURSIVE PartiallyConsumed(_, _)
PartiallyConsumed(b, i) ==
  IF i > Len(b.spend_amounts) THEN <<>>
  ELSE LET oar == b.input_records[i]
           spend_amount == b.spend_amounts[i]
       IN (IF spend_amount < oar.amount
           THEN << AssetRecord(oar.amount - spend_amount,
                               oar.asset_type, oar.public_key) >>
           ELSE <<>>) \o PartiallyConsumed(b, i + 1)

\* What balance returns and the builder it leaves, the sums taken as a release
\* build takes them.
BalanceResult(b) ==
  IF b.transfer.some THEN [kind |-> "Err", err |-> "InvariantError", b |-> b]
  ELSE IF SpendsTooMuch(b) THEN [kind |-> "Err", err |-> "InputsError", b |-> b]
  ELSE IF WrappingSum(b.spend_amounts) # WrappingSum(Amounts(b.output_records))
       THEN [kind |-> "Err", err |-> "InputsError", b |-> b]
  ELSE [kind |-> "Ok",
        b |-> [b EXCEPT !.output_records = @ \o PartiallyConsumed(b, 1)]]

\* spend_amounts.iter().sum() and the fold over output_records are u64
\* additions: on overflow a debug build panics and a release build wraps.
\* The sum of the spend amounts is taken before the loop, the fold after it.
balance ==
  /\ Alive
  /\ Len(builder.output_records) <= MaxOutputs
  /\ LET r == BalanceResult(builder)
         overflow ==
           /\ ~builder.transfer.some
           /\ \/ Overflows(builder.spend_amounts)
              \/ ~SpendsTooMuch(builder)
                   /\ Overflows(Amounts(builder.output_records))
     IN \/ /\ overflow
           /\ build = "any"
           /\ ret' = [kind |-> "Panic"]
           /\ UNCHANGED <<builder, build>>
        \/ /\ builder' = r.b
           /\ ret' = IF r.kind = "Ok" THEN BuilderOk("balance")
                     ELSE BuilderErr("balance", r.err)
           /\ build' = IF overflow THEN "release" ELSE build
  /\ UNCHANGED <<ledgerVars, applied, disk, lock, seen>>

\* TransferAssetBody::new and TransferAsset::new build the body and its proof
\* from the builder's records; either may fail, and then `?` returns before
\* self.transfer is assigned.
TransferAssetBody(b) ==
  [inputs |-> b.input_sids, transfer_inputs |-> b.input_records,
   transfer_outputs |-> b.output_records]

create(transfer_type) ==
  /\ Alive
  /\ \/ /\ builder' = [builder EXCEPT !.transfer =
                          Some([body |-> TransferAssetBody(builder),
                                body_signatures |-> <<>>,
                                transfer_type |-> transfer_type])]
        /\ ret' = BuilderOk("create")
     \/ /\ ret' = BuilderErr("create", "ZeiError")
        /\ UNCHANGED builder
  /\ UNCHANGED BuilderVars

\* A body signature: the signer's key and the body that was signed.
SignBody(kp, body) == [key |-> kp, body |-> body]

SigVerify(sig, body) == sig.body = body

sign(kp) ==
  /\ Alive
  /\ IF ~builder.transfer.some
     THEN /\ ret' = BuilderErr("sign", "InvariantError")
          /\ UNCHANGED builder
     ELSE /\ Len(builder.transfer.value.body_signatures) < MaxSigs
          /\ builder' = [builder EXCEPT !.transfer.value.body_signatures =
                            Append(@, SignBody(kp, builder.transfer.value.body))]
          /\ ret' = BuilderOk("sign")
  /\ UNCHANGED BuilderVars

transaction ==
  /\ Alive
  /\ ret' = IF ~builder.transfer.some
            THEN BuilderErr("transaction", "InvariantError")
            ELSE [kind |-> "Ok", call |-> "transaction",
                  op |-> builder.transfer.value]
  /\ UNCHANGED <<builder, BuilderVars>>

\* Mutant: the owners of the input records are not looked up.
SignaturesValid_OwnersUnchecked(trn) ==
  \A i \in 1..Len(trn.body_signatures) :
     SigVerify(trn.body_signatures[i], trn.body)

\* Both loops of validate_signatures pass.
SignaturesValid(trn) ==
  LET sig_keys == { trn.body_signatures[i].key :
                      i \in 1..Len(trn.body_signatures) }
  IN /\ \A i \in 1..Len(trn.body_signatures) :
          SigVerify(trn.body_signatures[i], trn.body)
     /\ \A i \in 1..Len(trn.body.transfer_inputs) :
          trn.body.transfer_inputs[i].public_key \in sig_keys

validate_signatures ==
  /\ Alive
  /\ ret' = IF ~builder.transfer.some
            THEN BuilderErr("validate_signatures", "InvariantError")
            ELSE IF SignaturesValid(builder.transfer.value)
            THEN BuilderOk("validate_signatures")
            ELSE BuilderErr("validate_signatures", "InvariantError")
  /\ UNCHANGED <<builder, BuilderVars>>

NextBuilder ==
  \/ \E i \in BuilderInputs : add_input(i.txo_sid, i.open_ar, i.amount)
  \/ \E o \in BuilderOutputs : add_output(o.amount, o.recipient, o.code)
  \/ balance
  \/ create("Standard")
  \/ \E kp \in XfrKeys : sign(kp)
  \/ transaction
  \/ validate_signatures

SpecBuilder == Init /\ [][NextBuilder]_vars

\* ==== claims ================================================================
\* Helpers over the history.
Applies     == Len(applied') = Len(applied) + 1   \* this step applied an effect
LastApplied == applied'[Len(applied')]
SpentSids   == UNION { DOMAIN applied[i].input_txos : i \in 1..Len(applied) }
IssuedSeqs(code) ==
  UNION { { applied[i].new_issuance_nums[code][j] :
              j \in 1..Len(applied[i].new_issuance_nums[code]) } :
          i \in { k \in 1..Len(applied) :
                    code \in DOMAIN applied[k].new_issuance_nums } }
SetBits == { i \in 0..(Len(utxo_map) - 1) : utxo_map[i + 1] }
IssueOnly(code, s) == compute_effect(SeedPrng, <<Issue(code, s, <<1>>)>>)
Rejects(eff) == \A o \in apply_txn_effects(status, eff) : o.kind = "Err"
Accepts(eff) == \A o \in apply_txn_effects(status, eff) : o.kind = "Ok"
NotRejected(eff) == \A o \in apply_txn_effects(status, eff) : o.kind # "Err"

\* C1: whenever apply_transaction returns an error, utxos, asset_types,
\* issuance_num, next_txn, next_txo, utxo_map_versions, global_hash,
\* global_commit_count, the bitmap, the Merkle leaves and txs are all exactly
\* as before the call.
C1_AtomicRejection ==
  [][ret'.kind = "Err" => UNCHANGED ledgerVars]_vars

\* A rejection returned by a ledger that already holds outputs and assets.
C1_Witness ==
  ret.kind = "Err" /\ next_txn >= 2 /\ DOMAIN utxos # {}

C3_BitmapTracksLive ==
  \A i \in (DOMAIN utxos) \cup SpentSids :
     /\ i < next_txo
     /\ i < Len(utxo_map)
     /\ utxo_map[i + 1] <=> (i \in DOMAIN utxos)

\* C4: define A; issue A with seq_num 0 and one output; transfer that output
\* (Absolute) to two outputs; checkpoint.  Then utxos has two entries, the
\* watermark of A is 1, next_txn = 3, next_txo = 3 and exactly 2 of the 3
\* allocated bitmap bits are set.
C4_Scenario ==
  /\ Len(applied) = 3
  /\ \E p \in Props : applied[1].txn = <<Define("A", p)>>
  /\ applied[2].txn = <<Issue("A", 0, <<1>>)>>
  /\ applied[3].txn = <<Transfer(<<Absolute(0)>>, <<1>>, <<1, 2>>)>>
  /\ global_commit_count = 1
  /\ ret.kind = "Checkpoint"

C4_EndToEnd ==
  C4_Scenario =>
     /\ Cardinality(DOMAIN utxos) = 2
     /\ issuance_num["A"] = 1
     /\ next_txn = 3
     /\ next_txo = 3
     /\ Len(utxo_map) = 3
     /\ Cardinality(SetBits) = 2

\* C5: for a registered code, once seq_num n has been issued, an issuance of
\* the same code with a seq_num <= n is rejected; and when n is the greatest
\* sequence number issued so far, an issuance with n + 1 is accepted.
C5_IssuanceReplayProtected ==
  \A code \in DOMAIN asset_types :
    \A n \in IssuedSeqs(code) :
       /\ \A s \in 0..n : Rejects(IssueOnly(code, s))
       /\ ( /\ n + 1 <= U64_MAX
            /\ \A m \in IssuedSeqs(code) : m <= n )
          => Accepts(IssueOnly(code, n + 1))

\* C6 as stated: an effect with a non-empty issuance list for a code is
\* applied only if the least number of the list is strictly greater than the
\* stored issuance_num[code].
C6_Rule3Strict ==
  [][Applies =>
       \A code \in DOMAIN LastApplied.new_issuance_nums :
          LET seq_nums == LastApplied.new_issuance_nums[code]
          IN Len(seq_nums) > 0 =>
               /\ code \in DOMAIN issuance_num
               /\ seq_nums[1] > issuance_num[code]]_vars

\* C6 as amended: such an effect is applied only if the least number of the
\* list is greater than or equal to the stored issuance_num[code]; for a
\* registered code an issuance whose number equals the stored issuance_num is
\* not rejected and one whose number is below it is rejected.
C6_Rule3 ==
  /\ [][Applies =>
         \A code \in DOMAIN LastApplied.new_issuance_nums :
            LET seq_nums == LastApplied.new_issuance_nums[code]
            IN Len(seq_nums) > 0 =>
                 /\ code \in DOMAIN issuance_num
                 /\ seq_nums[1] >= issuance_num[code]]_vars
  /\ [](\A code \in DOMAIN issuance_num :
          /\ NotRejected(IssueOnly(code, issuance_num[code]))
          /\ \A s \in 0..(issuance_num[code] - 1) :
                Rejects(IssueOnly(code, s)))

\* The stored limit of A is 1 and an issuance with seq_num 1 has been applied.
C6_Witness ==
  /\ Len(applied) = 3
  /\ applied[2].txn = <<Issue("A", 0, <<1>>)>>
  /\ applied[3].txn = <<Issue("A", 1, <<1>>)>>

\* C7: for every code, issuance_num[code] is strictly greater than every
\* sequence number a successfully applied transaction has issued for it.
C7_Watermark ==
  \A code \in DOMAIN issuance_num :
     \A s \in IssuedSeqs(code) : issuance_num[code] > s

\* C8: an applied effect defines only codes that were in neither asset_types
\* nor issuance_num, and no step removes a registered asset type or changes
\* its value.
C8_DefinedOnce ==
  [][/\ \A code \in DOMAIN asset_types :
           /\ code \in DOMAIN asset_types'
           /\ asset_types'[code] = asset_types[code]
     /\ Applies =>
           \A code \in DOMAIN LastApplied.new_asset_codes :
              /\ code \notin DOMAIN asset_types
              /\ code \notin DOMAIN issuance_num]_vars

\* Both codes are registered, a further transaction has been applied and an
\* effect has been rejected.
C8_Witness ==
  /\ DOMAIN asset_types = Codes
  /\ Len(applied) = 3
  /\ ret.kind = "Err"

\* C9: an effect is applied only if every (TxoSID, record) pair of its
\* input_txos is in utxos with that record; one missing or mismatching input
\* rejects the whole effect.
C9_InputsChecked ==
  [][Applies =>
       \A sid \in DOMAIN LastApplied.input_txos :
          /\ sid \in DOMAIN utxos
          /\ utxos[sid] = LastApplied.input_txos[sid]]_vars

\* A transfer with an Absolute input has been applied.
C9_Witness ==
  /\ ret.kind = "Ok"
  /\ Len(applied) > 0
  /\ DOMAIN applied[Len(applied)].input_txos # {}

\* C10: next_txn equals the number of successfully applied transactions and
\* the length of txs.
C10_TxnCounter ==
  /\ next_txn = Len(applied)
  /\ next_txn = Len(txs)

\* Two transactions applied, a checkpoint taken and a rejection returned.
C10_Witness ==
  /\ next_txn = 2
  /\ global_commit_count >= 1
  /\ ret.kind = "Err"

\* Helpers over a sequence.
RECURSIVE SumSlots(_)
SumSlots(effs) ==
  IF effs = <<>> THEN 0
  ELSE Len(effs[1].txos) + SumSlots(Tail(effs))
Range(seq) == { seq[i] : i \in 1..Len(seq) }
IsSet(bits, ix) == ix < Len(bits) /\ bits[ix + 1]
SomeSlots(eff) == { ix \in 0..(Len(eff.txos) - 1) : eff.txos[ix + 1] # None }

\* C11: next_txo equals the sum, over the successfully applied transactions, of
\* the number of output slots of the effect's txos (None slots included), and
\* every key of utxos is strictly less than next_txo.
C11_TxoCounter ==
  /\ next_txo = SumSlots(applied)
  /\ \A sid \in DOMAIN utxos : sid < next_txo

\* A transaction with an internally consumed slot has been applied and
\* outputs are unspent.
C11_Witness ==
  /\ \E i \in 1..Len(applied) : None \in Range(applied[i].txos)
  /\ DOMAIN utxos # {}
  /\ next_txo > Cardinality(DOMAIN utxos)

\* C12: a successful apply returns the TxnSID equal to the pre-call next_txn
\* and a strictly ascending list of TxoSIDs holding exactly pre-call
\* next_txo + ix for every Some slot ix of the effect's txos; afterwards each
\* returned TxoSID maps in utxos to the record of its slot.
C12_Identifiers ==
  [][Applies =>
       LET eff  == LastApplied
           sids == ret'.utxo_sids
       IN /\ ret'.kind = "Ok"
          /\ ret'.txn_sid = next_txn
          /\ \A i, j \in 1..Len(sids) : i < j => sids[i] < sids[j]
          /\ Range(sids) = { next_txo + ix : ix \in SomeSlots(eff) }
          /\ \A sid \in Range(sids) :
                /\ sid \in DOMAIN utxos'
                /\ utxos'[sid] = eff.txos[sid - next_txo + 1]]_vars

\* The last call applied a transaction whose first slot is None and whose
\* second slot is an output, on a ledger that had allocated identifiers.
C12_Witness ==
  /\ ret.kind = "Ok"
  /\ Len(applied) >= 2
  /\ LET eff == applied[Len(applied)]
     IN /\ Len(eff.txos) = 2
        /\ eff.txos[1] = None
        /\ ret.utxo_sids = <<next_txo - 1>>

\* C13: after a successful apply the key set of utxos is the old key set
\* minus the keys of the effect's input_txos, plus the returned TxoSIDs, and
\* every other entry that existed before is unchanged.
C13_UtxoDelta ==
  [][Applies =>
       /\ DOMAIN utxos' = ((DOMAIN utxos) \ (DOMAIN LastApplied.input_txos))
                             \cup Range(ret'.utxo_sids)
       /\ \A sid \in (DOMAIN utxos) \ (DOMAIN LastApplied.input_txos) :
             utxos'[sid] = utxos[sid]]_vars

\* The last call spent one of two unspent outputs and created new ones.
C13_Witness ==
  /\ ret.kind = "Ok"
  /\ Len(applied) > 0
  /\ DOMAIN applied[Len(applied)].input_txos # {}
  /\ ret.utxo_sids # <<>>
  /\ \E sid \in DOMAIN utxos : sid \notin Range(ret.utxo_sids)

\* C14: after a successful apply_transaction that allocated the TxoSID range
\* [base, max), for every ix in the range (slots after the last unspent
\* output included) bitmap bit ix is set if and only if TxoSID ix is in the
\* returned list; the bits below base are unchanged.
C14_BitmapRange ==
  [][Applies =>
       /\ \A ix \in next_txo..(next_txo' - 1) :
             IsSet(utxo_map', ix) <=> (ix \in Range(ret'.utxo_sids))
       /\ \A ix \in 0..(next_txo - 1) :
             IsSet(utxo_map', ix) <=> IsSet(utxo_map, ix)]_vars

\* C15: each checkpoint sets global_hash to the hash of (current bitmap
\* digest, current Merkle root, pre-call global_commit_count, pre-call
\* global_hash) and increases global_commit_count by exactly 1.
C15_HashChaining ==
  [][ret'.kind = "Checkpoint" =>
       /\ global_hash' = GlobalHashData(compute_checksum(utxo_map),
                                        get_root_hash(merkle),
                                        global_commit_count, global_hash)
       /\ global_commit_count' = global_commit_count + 1]_vars

\* A second checkpoint has been taken on a ledger with a non-empty bitmap.
C15_Witness ==
  /\ ret.kind = "Checkpoint"
  /\ global_commit_count = 2
  /\ next_txn >= 1
  /\ utxo_map # <<>>

\* C16: a checkpoint leaves a global_hash different from the one the previous
\* checkpoint left, whether or not transactions were applied in between (no
\* other call changes global_hash).
C16_ChainDistinct ==
  [][IF ret'.kind = "Checkpoint"
     THEN global_hash' # global_hash
     ELSE global_hash' = global_hash]_vars

\* Two checkpoints have been taken with no transaction between them.
C16_Witness ==
  /\ ret.kind = "Checkpoint"
  /\ global_commit_count = 2
  /\ utxo_map_versions[1] = utxo_map_versions[2]

\* C19: get_global_hash of a fresh ledger is (zero digest, 0); a checkpoint
\* adds one to its second component, and neither apply_transaction (applied
\* or rejected) nor snapshot changes either component, so the second
\* component counts the checkpoints made.
C19_GlobalHashAccessor ==
  /\ get_global_hash(status) = <<ZeroDigest, 0>>
  /\ [][IF ret'.kind = "Checkpoint"
        THEN get_global_hash(status)'[2] = get_global_hash(status)[2] + 1
        ELSE get_global_hash(status)' = get_global_hash(status)]_vars

\* After two checkpoints a transaction has been applied and a snapshot taken.
C19_Witness ==
  /\ ret.kind = "Snapshot"
  /\ get_global_hash(status)[2] = 2
  /\ utxo_map_versions[2][1] < next_txn

\* C17: a checkpoint grows utxo_map_versions by one while its length is below
\* MAX_VERSION and otherwise evicts the oldest entry, keeping the length; the
\* entry pushed at the back is (current next_txn, current bitmap checksum);
\* from a fresh ledger the length never exceeds MAX_VERSION.
C17_BoundedVersions ==
  /\ [][ret'.kind = "Checkpoint" =>
          LET entry == <<next_txn, compute_checksum(utxo_map)>>
          IN IF Len(utxo_map_versions) < MAX_VERSION
             THEN utxo_map_versions' = Append(utxo_map_versions, entry)
             ELSE /\ utxo_map_versions' =
                        Append(Tail(utxo_map_versions), entry)
                  /\ Len(utxo_map_versions') = Len(utxo_map_versions)]_vars
  /\ [](Len(utxo_map_versions) <= MAX_VERSION)

\* More than MAX_VERSION checkpoints have been taken: the history is full and
\* the entry of the first checkpoint (taken before any transaction) is gone.
C17_Witness ==
  /\ ret.kind = "Checkpoint"
  /\ global_commit_count > MAX_VERSION
  /\ Len(utxo_map_versions) = MAX_VERSION
  /\ utxo_map_versions[1][1] = 1

\* C18: right after a checkpoint, get_utxo_checksum(next_txn) is Some of the
\* current bitmap checksum, also when earlier retained entries carry the same
\* TxnSID; get_utxo_checksum(v) is None for every v that is not the TxnSID of
\* a retained entry.
C18_VersionLookup ==
  /\ ret.kind = "Checkpoint" =>
       get_utxo_checksum(utxo_map_versions, next_txn)
          = Some(compute_checksum(utxo_map))
  /\ \A v \in 0..(MaxTxns + 1) :
       v \notin { utxo_map_versions[i][1] : i \in 1..Len(utxo_map_versions) }
          => get_utxo_checksum(utxo_map_versions, v) = NoneOpt

\* The history is full, its oldest entries have been evicted, the last two
\* checkpoints were taken at the same TxnSID after the bitmap had changed,
\* and the lookup of the evicted TxnSID 0 finds nothing.
C18_Witness ==
  /\ ret.kind = "Checkpoint"
  /\ global_commit_count > MAX_VERSION
  /\ next_txn = 2
  /\ utxo_map # <<>>
  /\ utxo_map_versions[MAX_VERSION - 1][1] = 2
  /\ utxo_map_versions[1][1] = 1
  /\ get_utxo_checksum(utxo_map_versions, 0) = NoneOpt

\* C20: when every file opens and the snapshot deserializes, load returns a
\* LedgerState (holding the recovered transactions and the snapshot's status)
\* if the number of transactions recovered from the log equals the
\* snapshot's next_txn, and for every other recovered count it returns none:
\* the process panics on the integrity assertion.
C20_LoadIntegrity ==
  [][(/\ ret.kind = "Start"
      /\ ret'.kind # "Start"
      /\ disk.merkle.exists /\ disk.utxo_map.exists
      /\ disk.txn_log.exists
      /\ disk.snapshot.exists /\ disk.snapshot.valid) =>
       LET recovered == load_transaction_log(disk.txn_log)
           st        == disk.snapshot.status
       IN IF Len(recovered) = st.next_txn
          THEN /\ ret'.kind = "Loaded"
               /\ txs' = recovered
               /\ status' = st
          ELSE /\ ret'.kind = "Panic"
               /\ UNCHANGED ledgerVars]_vars

\* A log of three entries whose last one does not deserialize has been
\* loaded with a snapshot that counts two transactions.
C20_Witness ==
  /\ ret.kind = "Loaded"
  /\ Len(disk.txn_log.entries) = 3
  /\ Len(txs) = 2
  /\ next_txn = 2

\* C21: after K successful applies the transaction log read back by
\* load_transaction_log holds exactly the K finalized transactions, in
\* application order.
C21_LogDurable ==
  load_transaction_log(disk.txn_log) = txs

\* C23: for every i < next_txn, get_transaction(i) is the i-th applied
\* transaction with tx_id = i and the leaf index at which its hash sits in
\* the Merkle tree, and get_proof(i) is a proof for that leaf; for every
\* i >= next_txn both are None.
C23_HistoryLookup ==
  \A i \in 0..(MaxTxns + 1) :
    LET t == get_transaction(txs, i)
        p == get_proof(txs, merkle, i)
    IN IF i < next_txn
       THEN /\ t.some
            /\ t.value.txn = applied[i + 1].txn
            /\ t.value.tx_id = i
            /\ t.value.merkle_id < Len(merkle)
            /\ merkle[t.value.merkle_id + 1]
                 = compute_merkle_hash(applied[i + 1].txn, i)
            /\ p = Some(MerkleProof(merkle, t.value.merkle_id))
            /\ p.value.hash = compute_merkle_hash(applied[i + 1].txn, i)
       ELSE t = NoneOpt /\ p = NoneOpt

\* Three different transactions have been applied.
C23_Witness ==
  /\ next_txn = 3
  /\ txs[1].txn # txs[2].txn
  /\ txs[2].txn # txs[3].txn
  /\ get_transaction(txs, 2).some

\* C24: snapshot returns the size of the Merkle tree at the call (the number
\* of transactions appended so far) and changes neither the LedgerStatus, the
\* bitmap, the Merkle leaves nor the finalized-transaction list.
C24_Snapshot ==
  [][ret'.kind = "Snapshot" =>
       /\ ret'.id = Len(merkle)
       /\ ret'.id = next_txn
       /\ UNCHANGED ledgerVars]_vars

\* A snapshot taken after two transactions and a checkpoint.
C24_Witness ==
  /\ ret.kind = "Snapshot"
  /\ ret.id = 2
  /\ global_commit_count = 1
  /\ DOMAIN utxos # {}

\* C22 (Merkle tree and bitmap): at every point of apply_transaction at which
\* the process can stop, next_txn is not ahead of the number of Merkle leaves
\* appended and next_txo is not ahead of the bitmap slots written.
C22_DurableFirst ==
  /\ next_txn <= Len(merkle)
  /\ next_txo <= Len(utxo_map)

\* Helpers over a transaction.
Computed == ret.kind = "Effect"
Computes == ret.kind = "Txn" /\ ret'.kind = "Effect"
Transfers(txn) == { k \in 1..Len(txn) : txn[k].kind = "TransferAsset" }

C26_DeepInvariant ==
  (Computed /\ ret.result.ok) => deep_invariant_check(ret.result) = "Ok"

\* The records the operations 1..k of a transaction put out, in slot order.
OpOutputs(op) ==
  CASE op.kind = "IssueAsset"    -> op.records
    [] op.kind = "TransferAsset" -> op.xfr_outputs
    [] op.kind = "DefineAsset"   -> <<>>
RECURSIVE OutRecords(_, _)
OutRecords(txn, k) ==
  IF k = 0 THEN <<>> ELSE OutRecords(txn, k - 1) \o OpOutputs(txn[k])
\* The input positions <<operation, input>> of a kind of reference.
InputRefs(txn, ref) ==
  { p \in UNION { {k} \X (1..Len(txn[k].inputs)) : k \in Transfers(txn) } :
      txn[p[1]].inputs[p[2]].ref = ref }
\* The slot a Relative input at position p refers to.
RelSlot(txn, p) ==
  Len(OutRecords(txn, p[1] - 1)) - 1 - txn[p[1]].inputs[p[2]].n
\* The sequence numbers of the issuances of a code, in operation order.
IssueSeqs(txn, code) ==
  LET IsIssue(op) == op.kind = "IssueAsset" /\ op.code = code
      ops == SelectSeq(txn, IsIssue)
  IN [i \in 1..Len(ops) |-> ops[i].seq_num]

\* C27: compute_effect succeeds only if every Relative(offs) input of a
\* transfer has offs below the number of outputs produced before the
\* transfer, refers to a slot whose record equals the declared input record,
\* and no two Relative inputs of the transaction refer to the same slot; the
\* slots referred to, and only they, are None in the effect's txos.
C27_RelativeInputs ==
  (Computed /\ ret.result.ok) =>
     LET txn  == ret.txn
         refs == InputRefs(txn, "Relative")
     IN /\ \A p \in refs :
             /\ txn[p[1]].inputs[p[2]].n < Len(OutRecords(txn, p[1] - 1))
             /\ OutRecords(txn, p[1] - 1)[RelSlot(txn, p) + 1]
                  = txn[p[1]].xfr_inputs[p[2]]
             /\ ret.result.txos[RelSlot(txn, p) + 1] = None
        /\ \A p, q \in refs : p # q => RelSlot(txn, p) # RelSlot(txn, q)
        /\ Len(ret.result.txos) = Len(OutRecords(txn, Len(txn)))
        /\ \A ix \in 0..(Len(ret.result.txos) - 1) :
             IF ix \in { RelSlot(txn, p) : p \in refs }
             THEN ret.result.txos[ix + 1] = None
             ELSE ret.result.txos[ix + 1] = OutRecords(txn, Len(txn))[ix + 1]

\* Two transfers of one transaction have each consumed an earlier output.
C27_Witness ==
  /\ Computed
  /\ ret.result.ok
  /\ Cardinality(Transfers(ret.txn)) = 2
  /\ Cardinality({ ix \in 1..Len(ret.result.txos) :
                     ret.result.txos[ix] = None }) = 2

\* C28: compute_effect succeeds only if no TxoSID is referenced by two
\* Absolute inputs of the transaction; then input_txos holds exactly the
\* TxoSIDs referenced absolutely, each with the record declared for it.
C28_AbsoluteInputs ==
  (Computed /\ ret.result.ok) =>
     LET txn  == ret.txn
         refs == InputRefs(txn, "Absolute")
         sid(p) == txn[p[1]].inputs[p[2]].n
     IN /\ \A p, q \in refs : p # q => sid(p) # sid(q)
        /\ DOMAIN ret.result.input_txos = { sid(p) : p \in refs }
        /\ \A p \in refs :
             ret.result.input_txos[sid(p)] = txn[p[1]].xfr_inputs[p[2]]

\* Two transfers naming different TxoSIDs have been computed.
C28_Witness ==
  /\ Computed
  /\ ret.result.ok
  /\ Cardinality(DOMAIN ret.result.input_txos) = 2

C30_IssuanceOrder ==
  (Computed /\ ret.result.ok) =>
     \A code \in DOMAIN ret.result.new_issuance_nums :
        LET nums == ret.result.new_issuance_nums[code]
        IN /\ nums = IssueSeqs(ret.txn, code)
           /\ \A i, j \in 1..Len(nums) : i < j => nums[i] < nums[j]
           /\ \A i \in 1..Len(nums) :
                 nums[1] <= nums[i] /\ nums[i] <= nums[Len(nums)]

\* A transaction issuing the same code twice, in increasing order.
C30_Witness ==
  /\ Computed
  /\ ret.result.ok
  /\ "A" \in DOMAIN ret.result.new_issuance_nums
  /\ ret.result.new_issuance_nums["A"] = <<0, 1>>

\* C31: under the lock discipline (updates under the write guard, queries
\* under a read guard) every query sees the finalized transactions, the
\* Merkle leaves and the bitmap in step with the counters: txs length =
\* next_txn, one leaf per transaction, bitmap extent = next_txo.
C31_ReaderConsistency ==
  /\ seen.some =>
       /\ seen.value.txs = seen.value.next_txn
       /\ seen.value.merkle = seen.value.next_txn
       /\ seen.value.utxo_map = seen.value.next_txo
  /\ lock.readers > 0 =>
       /\ ~lock.writer
       /\ Len(txs) = next_txn
       /\ Len(merkle) = next_txn
       /\ Len(utxo_map) = next_txo

\* A query made before the third transaction was applied saw the first two
\* complete; two readers hold guards now.
C31_Witness ==
  /\ seen.some
  /\ seen.value.next_txn = 2
  /\ seen.value.next_txo > 0
  /\ next_txn = 3
  /\ lock.readers = 2

\* Two effects that cannot both be applied: they consume the same Absolute
\* TxoSID, define the same code, or issue the same seq_num of one code.
Conflict(a, b) ==
  \/ (DOMAIN a.input_txos) \cap (DOMAIN b.input_txos) # {}
  \/ (DOMAIN a.new_asset_codes) \cap (DOMAIN b.new_asset_codes) # {}
  \/ \E code \in (DOMAIN a.new_issuance_nums) \cap (DOMAIN b.new_issuance_nums) :
        Range(a.new_issuance_nums[code]) \cap Range(b.new_issuance_nums[code])
          # {}
\* Effect b is rejected, with the status as it was, once a has been applied.
RejectedAfter(a, b) ==
  \A o \in apply_txn_effects(status, a) :
     o.kind = "Ok" =>
        \A o2 \in apply_txn_effects(o.st, b) :
           o2.kind = "Err" /\ o2.st = o.st

\* C32: in every state, for two effects computed beforehand that consume the
\* same Absolute TxoSID, define the same code or issue the same seq_num of a
\* code, whichever of them is applied first, the other is then rejected with
\* the status unchanged.
C32_Speculative ==
  \A a, b \in Effects :
     Conflict(a, b) => RejectedAfter(a, b) /\ RejectedAfter(b, a)

\* C32 without the issuances whose seq_num is the greatest u64.
C32_SpeculativeBelowMax ==
  \A a, b \in Effects :
     ( /\ Conflict(a, b)
       /\ \A e \in {a, b} : \A code \in DOMAIN e.new_issuance_nums :
             U64_MAX \notin Range(e.new_issuance_nums[code]) )
     => RejectedAfter(a, b) /\ RejectedAfter(b, a)

\* An effect that issues a code which is neither registered nor defined by
\* the effect itself.
IssuesUnknown(eff) ==
  \E code \in DOMAIN eff.new_issuance_nums :
     /\ Len(eff.new_issuance_nums[code]) > 0
     /\ code \notin DOMAIN asset_types
     /\ code \notin DOMAIN eff.new_asset_codes

\* C33: applying an effect of compute_effect that issues a code neither
\* registered in the ledger nor defined by the effect returns an error and
\* leaves the status as it was; apply_txn_effects does not panic on such an
\* effect.
C33_UnknownIssueRejected ==
  \A eff \in Effects :
     IssuesUnknown(eff) =>
        \A o \in apply_txn_effects(status, eff) :
           o.kind = "Err" /\ o.st = status

\* An effect that defines a code and issues it, on a ledger where the code
\* is unregistered and every other check of stage 1 passes.
DefinesAndIssues(eff, code) ==
  /\ code \in DOMAIN eff.new_asset_codes
  /\ code \in DOMAIN eff.new_issuance_nums
  /\ Len(eff.new_issuance_nums[code]) > 0
  /\ InputsUnspent(status, eff)
  /\ \A c \in DOMAIN eff.new_asset_codes :
        c \notin DOMAIN asset_types /\ c \notin DOMAIN issuance_num
  /\ \A c \in (DOMAIN eff.new_issuance_nums) \ (DOMAIN eff.new_asset_codes) :
        /\ c \in DOMAIN issuance_num
        /\ Len(eff.new_issuance_nums[c]) > 0
        /\ eff.new_issuance_nums[c][1] >= issuance_num[c]

\* C34: an effect that defines code A and issues A in the same transaction is
\* accepted by apply_txn_effects on a ledger where A is unregistered;
\* afterwards A is registered and issuance_num[A] is one past the greatest
\* seq_num issued.
C34_DefineThenIssue ==
  \A eff \in Effects : \A code \in Codes :
     DefinesAndIssues(eff, code) =>
        \A o \in apply_txn_effects(status, eff) :
           LET seq_nums == eff.new_issuance_nums[code]
           IN /\ o.kind = "Ok"
              /\ code \in DOMAIN o.st.asset_types
              /\ o.st.issuance_num[code] = seq_nums[Len(seq_nums)] + 1

\* C35: after an effect with a non-empty issuance list for a code has been
\* applied, issuance_num[code] is strictly greater than the last (greatest)
\* seq_num of the list, also when that seq_num is the greatest u64.
C35_NoWraparound ==
  [][Applies =>
       \A code \in DOMAIN LastApplied.new_issuance_nums :
          LET seq_nums == LastApplied.new_issuance_nums[code]
          IN Len(seq_nums) > 0 =>
                issuance_num'[code] > seq_nums[Len(seq_nums)]]_vars

\* What stage 1 rejects an effect for.
MissingInput(eff)   == ~InputsUnspent(status, eff)
DuplicateDefine(eff) ==
  InputsUnspent(status, eff) /\ ~AssetCodesFresh(status, eff)
ReplayedIssuance(eff) ==
  /\ InputsUnspent(status, eff)
  /\ AssetCodesFresh(status, eff)
  /\ \E code \in IssuanceErrCodes(status, eff) :
        Len(eff.new_issuance_nums[code]) > 0

\* C36: the error kind reported for an effect rejected for a missing or spent
\* Absolute input differs from the kind reported for a duplicate asset
\* definition and from the kind reported for a replayed issuance seq_num.
C36_DistinctErrorKinds ==
  \A a, b \in Effects :
     ( /\ MissingInput(a)
       /\ DuplicateDefine(b) \/ ReplayedIssuance(b) )
     => ValidateError(status, a) # ValidateError(status, b)

\* Helpers over the builder.
Called(call) == ret'.kind \in {"Ok", "Err"} /\ ret'.call = call
Returned(call) == ret.kind \in {"Ok", "Err"} /\ ret.call = call
Created == builder.transfer.some
OfType(records, asset_type) ==
  SelectSeq(records, LAMBDA r : r.asset_type = asset_type)

\* C37: once create() has succeeded, with or without sign() calls after it,
\* add_input, add_output and balance return an error and leave the builder
\* as it is; before create(), sign, transaction and validate_signatures
\* return an error.
C37_Frozen ==
  [][/\ (Created /\ \E c \in {"add_input", "add_output", "balance"} : Called(c))
          => ret'.kind = "Err" /\ builder' = builder
     /\ (~Created /\ \E c \in {"sign", "transaction", "validate_signatures"} :
                        Called(c))
          => ret'.kind = "Err" /\ builder' = builder]_vars

\* add_output has been refused on a transfer that was created and signed.
C37_Witness ==
  /\ Returned("add_output")
  /\ ret.kind = "Err"
  /\ Created
  /\ Len(builder.transfer.value.body_signatures) > 0

\* What C38 says of a call of balance on a builder not yet created.
BalanceAsStated ==
  LET fits  == \A i \in 1..Len(builder.spend_amounts) :
                  builder.spend_amounts[i] <= builder.input_records[i].amount
      equal == Total(builder.spend_amounts)
                 = Total(Amounts(builder.output_records))
      added == SubSeq(builder'.output_records,
                      Len(builder.output_records) + 1,
                      Len(builder'.output_records))
      partial == { i \in 1..Len(builder.spend_amounts) :
                     builder.spend_amounts[i] < builder.input_records[i].amount }
  IN /\ ret'.kind = "Ok" <=> (fits /\ equal)
     /\ ret'.kind = "Err" => builder' = builder
     /\ ret'.kind = "Ok" =>
          /\ builder' = [builder EXCEPT !.output_records = @ \o added]
          /\ Len(added) = Cardinality(partial)
          /\ added = PartiallyConsumed(builder, 1)
          /\ Total(Amounts(builder'.output_records))
               = Total(Amounts(builder.input_records))

\* C38: balance succeeds if and only if every spend amount is at most its
\* input record's amount and the spend amounts sum to the output amounts; on
\* success it appends one remainder output per partially spent input, so the
\* outputs total the input records; on failure the builder is unchanged.
C38_Balance ==
  [][(~Created /\ Called("balance")) => BalanceAsStated]_vars

\* C38 for spend amounts and output amounts whose sums fit in a u64.
C38_BalanceInRange ==
  [][( /\ ~Created /\ Called("balance")
       /\ ~Overflows(builder.spend_amounts)
       /\ ~Overflows(Amounts(builder.output_records)) )
     => BalanceAsStated]_vars

\* C39: after a successful balance, for every asset type the output amounts
\* of that type sum to the input record amounts of that type.
C39_PerAssetBalance ==
  [][(~Created /\ Called("balance") /\ ret'.kind = "Ok") =>
        \A asset_type \in Codes :
           Total(Amounts(OfType(builder'.output_records, asset_type)))
             = Total(Amounts(OfType(builder'.input_records, asset_type)))]_vars

\* C39 for the totals across asset types, when the sums fit in a u64.
C39_TotalBalance ==
  [][( /\ ~Created /\ Called("balance") /\ ret'.kind = "Ok"
       /\ ~Overflows(builder.spend_amounts)
       /\ ~Overflows(Amounts(builder.output_records)) )
     => Total(Amounts(builder'.output_records))
          = Total(Amounts(builder'.input_records))]_vars

\* C40: validate_signatures succeeds only on a created transfer whose
\* attached signatures all verify against the body and whose input records'
\* owner keys are all among the signers; a created transfer with an input
\* whose owner has not signed is rejected.
C40_SignaturesValidated ==
  Returned("validate_signatures") =>
     LET trn     == builder.transfer.value
         signers == { trn.body_signatures[i].key :
                        i \in 1..Len(trn.body_signatures) }
         owners  == { builder.input_records[i].public_key :
                        i \in 1..Len(builder.input_records) }
     IN /\ ret.kind = "Ok" =>
             /\ Created
             /\ \A i \in 1..Len(trn.body_signatures) :
                   trn.body_signatures[i].body = trn.body
             /\ owners \subseteq signers
        /\ (Created /\ ~(owners \subseteq signers)) => ret.kind = "Err"

\* A transfer with inputs of two owners, signed by both, has been validated.
C40_Witness ==
  /\ Returned("validate_signatures")
  /\ ret.kind = "Ok"
  /\ Cardinality({ builder.input_records[i].public_key :
                     i \in 1..Len(builder.input_records) }) = 2

====
